---- MODULE Spec2Model ----
(***************************************************************************)
(* A model of the CodeChat Editor.                                         *)
(*                                                                         *)
(* Client (client/src/CodeChatEditor.mjs): open_lp renders the lexed       *)
(* source as HTML (classified_source_to_html), make_editors attaches the   *)
(* editors, the user edits, on_save reads the editors back                 *)
(* (editor_to_code_doc_blocks) and save sends them to the server.          *)
(*                                                                         *)
(* Server (the design document, src/unnamed/part_000): the page            *)
(* processing pipeline on load and on save, and the cached state.          *)
(*                                                                         *)
(* JavaScript strings are modelled as sequences of one-character strings,  *)
(* so "a\n" is <<"a", "\n">> and "" is << >>.  The two non-string values a  *)
(* delimiter variable can hold are the one-element sequences Null and      *)
(* Minus2, whose element is not a character.                               *)
(***************************************************************************)
EXTENDS Integers, Sequences, FiniteSets, TLC

\* ------------------------------------------------------------------------
\* JavaScript values and string helpers
\* ------------------------------------------------------------------------

\* The JavaScript value null.
Null == <<"null">>

\* The number -2: the initial value of current_delimiter.
Minus2 == <<"-2">>

\* typeof v === "string"
IsString(v) == v # Null /\ v # Minus2

\* `${v}` in a template literal.
ToStr(v) == IF v = Null THEN <<"n", "u", "l", "l">>
            ELSE IF v = Minus2 THEN <<"-", "2">>
            ELSE v

\* " ".repeat(n)
RECURSIVE Spaces(_)
Spaces(n) == IF n = 0 THEN << >> ELSE <<" ">> \o Spaces(n - 1)

\* s.replaceAll(ch, rep) for a one-character pattern ch.
RECURSIVE ReplaceAll(_, _, _)
ReplaceAll(s, ch, rep) ==
    IF s = << >> THEN << >>
    ELSE (IF Head(s) = ch THEN rep ELSE <<Head(s)>>) \o ReplaceAll(Tail(s), ch, rep)

\* escapeHTML: "&" first, then "<", then ">".
escapeHTML(unsafeText) ==
    ReplaceAll(
        ReplaceAll(
            ReplaceAll(unsafeText, "&", <<"&", "a", "m", "p", ";">>),
            "<", <<"&", "l", "t", ";">>),
        ">", <<"&", "g", "t", ";">>)

\* s starts with the characters of p.
StartsWith(s, p) == Len(s) >= Len(p) /\ SubSeq(s, 1, Len(p)) = p

\* s without its first n characters.
Drop(s, n) == SubSeq(s, n + 1, Len(s))

\* The browser's decoding of character references in the text of an element
\* whose markup was assigned to innerHTML.
RECURSIVE DecodeEntities(_)
DecodeEntities(s) ==
    IF s = << >> THEN << >>
    ELSE IF StartsWith(s, <<"&", "a", "m", "p", ";">>) THEN <<"&">> \o DecodeEntities(Drop(s, 5))
    ELSE IF StartsWith(s, <<"&", "l", "t", ";">>) THEN <<"<">> \o DecodeEntities(Drop(s, 4))
    ELSE IF StartsWith(s, <<"&", "g", "t", ";">>) THEN <<">">> \o DecodeEntities(Drop(s, 4))
    ELSE <<Head(s)>> \o DecodeEntities(Tail(s))

\* contents.match(/\n$/) is not null: without the m flag $ matches only at
\* the end of the string.
MatchFinalNewline(contents) ==
    Len(contents) > 0 /\ contents[Len(contents)] = "\n"

\* (contents.match(/\n|\r\n|\r/g) || []).length
RECURSIVE CountLineBreaks(_)
CountLineBreaks(s) ==
    IF s = << >> THEN 0
    ELSE IF Head(s) = "\n" THEN 1 + CountLineBreaks(Tail(s))
    ELSE IF StartsWith(s, <<"\r", "\n">>) THEN 1 + CountLineBreaks(Drop(s, 2))
    ELSE IF Head(s) = "\r" THEN 1 + CountLineBreaks(Tail(s))
    ELSE CountLineBreaks(Tail(s))

\* full_string.split(/\r?\n/): acc is the piece being collected.
RECURSIVE SplitFrom(_, _)
SplitFrom(s, acc) ==
    IF s = << >> THEN <<acc>>
    ELSE IF Head(s) = "\n" THEN <<acc>> \o SplitFrom(Tail(s), << >>)
    ELSE IF StartsWith(s, <<"\r", "\n">>) THEN <<acc>> \o SplitFrom(Drop(s, 2), << >>)
    ELSE SplitFrom(Tail(s), Append(acc, Head(s)))

SplitLines(full_string) == SplitFrom(full_string, << >>)

\* ------------------------------------------------------------------------
\* Rendered HTML
\*
\* The strings classified_source_to_html pushes to its html array are
\* modelled as tokens: the opening markup of a code block (with its
\* data-CodeChat-firstLineNumber), the opening markup of a doc block (with
\* the text of its indent cell and its data-CodeChat-comment), a piece of
\* text, and the two closing markups of _exit_state.
\* ------------------------------------------------------------------------

CodeOpen(line) == [t |-> "code_open", firstLineNumber |-> line]

DocOpen(indent, delimiter) ==
    [t |-> "doc_open", indent |-> ToStr(indent), comment |-> ToStr(delimiter)]

DocOnlyOpen == [t |-> "doc_only_open"]

DocOnlyClose == [t |-> "doc_only_close"]

Text(s) == [t |-> "text", s |-> s]

CodeClose == [t |-> "code_close"]

DocClose == [t |-> "doc_close"]

\* _exit_state: what is pushed to html when the state `delimiter` is left.
ExitState(delimiter) ==
    IF delimiter = << >> THEN <<CodeClose>>
    ELSE IF IsString(delimiter) THEN <<DocClose>>
    ELSE << >>

\* The state of the loop of classified_source_to_html before its first
\* iteration.  threw records the TypeError of m[0] when m is null.
RenderStart ==
    [html |-> << >>, current_delimiter |-> Minus2, line |-> 1, threw |-> FALSE]

\* A mutation of the newline movement: the final newline stays on the line.
StripFinalNewlineKept(contents) == contents

\* contents with the newline matched by /\n$/ removed.
StripFinalNewline(contents) ==
    IF MatchFinalNewline(contents)
    THEN SubSeq(contents, 1, Len(contents) - 1)
    ELSE contents

\* A mutation of the test that starts a block: every entry starts one.
StartsBlockAlways(st, entry) == TRUE

\* current_delimiter !== delimiter: the entry starts a new block.
StartsBlock(st, entry) == st.current_delimiter # entry[2]

\* One iteration of the loop of classified_source_to_html over the entry
\* [indent, delimiter, contents].
RenderEntry(st, entry) ==
    LET indent == entry[1]
        delimiter == entry[2]
        m == MatchFinalNewline(entry[3])
        contents == StripFinalNewline(entry[3])
        shown == IF delimiter = << >> THEN escapeHTML(contents) ELSE contents
    IN  IF st.threw THEN st
        ELSE IF StartsBlock(st, entry)
        THEN [html |-> st.html \o ExitState(st.current_delimiter)
                        \o (IF delimiter = << >>
                            THEN <<CodeOpen(st.line), Text(shown)>>
                            ELSE <<DocOpen(indent, delimiter), Text(shown)>>),
              current_delimiter |-> delimiter,
              line |-> st.line + 1 + CountLineBreaks(contents),
              threw |-> FALSE]
        ELSE IF ~m
        THEN [st EXCEPT !.threw = TRUE]
        ELSE [html |-> st.html \o <<Text(<<"\n">>), Text(shown)>>,
              current_delimiter |-> delimiter,
              line |-> st.line + 1 + CountLineBreaks(contents),
              threw |-> FALSE]

\* The loop state after the first n entries of classified_source.
RECURSIVE RenderLoop(_, _)
RenderLoop(classified_source, n) ==
    IF n = 0 THEN RenderStart
    ELSE RenderEntry(RenderLoop(classified_source, n - 1), classified_source[n])

\* classified_source_to_html: [threw, html], html the tokens of the joined
\* string.
classified_source_to_html(classified_source) ==
    LET st == RenderLoop(classified_source, Len(classified_source))
    IN  IF st.threw THEN [threw |-> TRUE, html |-> << >>]
        ELSE [threw |-> FALSE, html |-> st.html \o ExitState(st.current_delimiter)]

\* ------------------------------------------------------------------------
\* The page: the elements of class CodeChat-ACE and CodeChat-TinyMCE
\*
\* A block of the page is a record:
\*   cls              "ACE" or "TinyMCE"
\*   firstLineNumber  data-CodeChat-firstLineNumber (0 for a doc block)
\*   hasIndentCell    the block's div follows a CodeChat-doc-indent cell
\*   indent           the textContent of that cell
\*   comment          data-CodeChat-comment, Null when the attribute is absent
\*   text             the element's content: the Ace editor's value, or the
\*                    markup inside the TinyMCE div
\*   readOnly         the Ace editor's readOnly option
\*   tiny             a TinyMCE editor instance exists for the element
\* ------------------------------------------------------------------------

\* The character standing for a child element inside an enclosing block's
\* markup (a block opened while another is still open).
ChildElement == "<div>"

NewBlock(token) ==
    [cls |-> IF token.t = "code_open" THEN "ACE" ELSE "TinyMCE",
     firstLineNumber |-> IF token.t = "code_open" THEN token.firstLineNumber ELSE 0,
     hasIndentCell |-> token.t = "doc_open",
     indent |-> IF token.t = "doc_open" THEN token.indent ELSE << >>,
     comment |-> IF token.t = "doc_open" THEN token.comment ELSE Null,
     text |-> << >>,
     readOnly |-> FALSE,
     tiny |-> FALSE]

\* The HTML parser's handling of one token.  ps.blocks are the elements in
\* document order, ps.open the indices of those not closed yet, innermost
\* last.  A closing markup closes the innermost open element: the </td> of
\* a doc block's closing markup also closes the div open inside the cell.
ParseToken(ps, token) ==
    IF token.t \in {"code_open", "doc_open", "doc_only_open"}
    THEN [blocks |-> Append([i \in DOMAIN ps.blocks |->
                                IF \E k \in DOMAIN ps.open : ps.open[k] = i
                                THEN [ps.blocks[i] EXCEPT !.text = Append(@, ChildElement)]
                                ELSE ps.blocks[i]],
                            NewBlock(token)),
          open |-> Append(ps.open, Len(ps.blocks) + 1)]
    ELSE IF token.t = "text"
    THEN IF ps.open = << >> THEN ps
         ELSE [ps EXCEPT !.blocks[ps.open[Len(ps.open)]].text = @ \o token.s]
    ELSE IF ps.open = << >> THEN ps
         ELSE [ps EXCEPT !.open = SubSeq(@, 1, Len(@) - 1)]

RECURSIVE ParseTokens(_, _)
ParseTokens(html, n) ==
    IF n = 0 THEN [blocks |-> << >>, open |-> << >>]
    ELSE ParseToken(ParseTokens(html, n - 1), html[n])

\* document.getElementById("CodeChat-body").innerHTML = html, as the
\* elements querySelectorAll(".CodeChat-ACE, .CodeChat-TinyMCE") returns.
\* The text of a code block is its textContent, character references
\* decoded.
ParseHTML(html) ==
    LET blocks == ParseTokens(html, Len(html)).blocks
    IN  [i \in DOMAIN blocks |->
            IF blocks[i].cls = "ACE"
            THEN [blocks[i] EXCEPT !.text = DecodeEntities(@)]
            ELSE blocks[i]]

\* The EditorMode enum.
EditorMode == [view |-> 0, toc |-> 1, edit |-> 2, raw |-> 3]

\* The value of a property EditorMode inherits from Object.prototype
\* (constructor, toString, ...): a function, none of the four modes.
InheritedProperty == 4

\* The names of properties every object inherits.
ObjectPrototypeNames == {"constructor", "toString"}

\* urlParams.get("mode"): null when the URL has no mode parameter.
NoModeParam == [present |-> FALSE, value |-> ""]

\* The mode parameters of the URLs a page is opened with.
ModeParams ==
    {NoModeParam}
    \cup {[present |-> TRUE, value |-> v] :
             v \in {"view", "toc", "edit", "raw", "", "bogus"} \cup ObjectPrototypeNames}

\* EditorMode[name]: [defined, value], undefined when EditorMode has no
\* such property.  A null name is looked up as "null".
EditorModeLookup(param) ==
    IF param.present /\ param.value \in DOMAIN EditorMode
    THEN [defined |-> TRUE, value |-> EditorMode[param.value]]
    ELSE IF param.present /\ param.value \in ObjectPrototypeNames
    THEN [defined |-> TRUE, value |-> InheritedProperty]
    ELSE [defined |-> FALSE, value |-> 0]

\* page_init: the mode open_lp is called with,
\* EditorMode[urlParams.get("mode")] ?? EditorMode.edit.
page_init(param) ==
    IF EditorModeLookup(param).defined THEN EditorModeLookup(param).value
    ELSE EditorMode.edit

\* make_editors: tinymce.init on every .CodeChat-TinyMCE in edit mode only;
\* ace.edit on every .CodeChat-ACE, read-only in view and toc mode.
make_editors(blocks, editorMode) ==
    [i \in DOMAIN blocks |->
        IF blocks[i].cls = "ACE"
        THEN [blocks[i] EXCEPT !.readOnly =
                 (editorMode = EditorMode.view \/ editorMode = EditorMode.toc)]
        ELSE [blocks[i] EXCEPT !.tiny = (editorMode = EditorMode.edit)]]

\* is_doc_only
is_doc_only(metadata) == metadata.mode = "codechat-html"

\* The html open_lp assigns to the body: [threw, html].  A CodeChat Editor
\* document takes the content of the first block as is; reading the first
\* block of an empty array throws.
OpenLpHtml(all_source) ==
    IF is_doc_only(all_source.metadata)
    THEN IF all_source.code_doc_block_arr = << >>
         THEN [threw |-> TRUE, html |-> << >>]
         ELSE [threw |-> FALSE,
               html |-> <<DocOnlyOpen, Text(all_source.code_doc_block_arr[1][3]),
                          DocOnlyClose>>]
    ELSE classified_source_to_html(all_source.code_doc_block_arr)

\* ------------------------------------------------------------------------
\* Saving: editor_to_code_doc_blocks
\* ------------------------------------------------------------------------

\* html_beautify of js-beautify, an external formatter: taken to return the
\* markup unchanged, whatever the wrap length.
html_beautify(full_string, wrap_line_length) == full_string

\* A mutation of the push: the "\n" is not put back on a line.
LinesOfNoNewline(indent, delimiter, full_string) ==
    LET pieces == SplitLines(full_string)
    IN  [k \in DOMAIN pieces |-> <<indent, delimiter, pieces[k]>>]

\* The entries pushed for one block: one per line of full_string, each line
\* with "\n" appended.
LinesOf(indent, delimiter, full_string) ==
    LET pieces == SplitLines(full_string)
    IN  [k \in DOMAIN pieces |-> <<indent, delimiter, pieces[k] \o <<"\n">> >>]

\* One iteration of the loop of editor_to_code_doc_blocks over the element
\* block: [threw, lines].  It throws a TypeError when the doc block has no
\* indent cell before it, when no TinyMCE instance exists for it
\* (tinymce.get returns null) and when the delimiter is null
\* (delimiter.length).
BlockLines(block, metadata) ==
    IF block.cls = "ACE"
    THEN [threw |-> FALSE, lines |-> LinesOf(<< >>, << >>, block.text)]
    ELSE IF ~is_doc_only(metadata) /\ ~block.hasIndentCell
    THEN [threw |-> TRUE, lines |-> << >>]
    ELSE LET indent == IF is_doc_only(metadata) THEN << >> ELSE block.indent
             delimiter == IF is_doc_only(metadata) THEN << >> ELSE block.comment
         IN  IF ~block.tiny \/ delimiter = Null
             THEN [threw |-> TRUE, lines |-> << >>]
             ELSE [threw |-> FALSE,
                   lines |-> LinesOf(indent, delimiter,
                                 html_beautify(block.text,
                                     80 - Len(indent) - Len(delimiter) - 1))]

\* The result of the loop over the first n elements.
RECURSIVE SaveLoop(_, _, _)
SaveLoop(blocks, metadata, n) ==
    IF n = 0 THEN [threw |-> FALSE, lines |-> << >>]
    ELSE LET before == SaveLoop(blocks, metadata, n - 1)
             this == BlockLines(blocks[n], metadata)
         IN  IF before.threw \/ this.threw
             THEN [threw |-> TRUE, lines |-> << >>]
             ELSE [threw |-> FALSE, lines |-> before.lines \o this.lines]

\* editor_to_code_doc_blocks: [threw, lines], lines the classified_lines
\* returned.
editor_to_code_doc_blocks(blocks, metadata) ==
    SaveLoop(blocks, metadata, Len(blocks))

\* ------------------------------------------------------------------------
\* Bounds and inputs of the client
\* ------------------------------------------------------------------------

\* The most entries a code_doc_block_arr has.
MaxEntries == 3

\* The indents of doc blocks.
Indents == {<< >>, <<" ">>}

\* The delimiters of doc blocks: an inline comment delimiter, and null
\* (use the default).
DocDelimiters == {<<"/", "/">>, Null}

\* The contents of code entries: an empty line, a line, a line with
\* characters that need escaping, a line ended by "\r\n", a last line with
\* no newline, and two lines in one entry.
CodeContents ==
    {<<"\n">>, <<"a", "\n">>, <<"&", "<", "\n">>, <<"a", "\r", "\n">>,
     <<"a">>, <<"a", "\r", "\n", "b", "\n">>}

\* The contents of doc entries.
DocContents == {<<"\n">>, <<"a", "\n">>, <<"a">>}

Entries ==
    {<< << >>, << >>, c >> : c \in CodeContents}
    \cup {<<i, d, c>> : i \in Indents, d \in DocDelimiters, c \in DocContents}

BlockArrays == UNION {[1..n -> Entries] : n \in 0..MaxEntries}

\* ------------------------------------------------------------------------
\* State of the client
\* ------------------------------------------------------------------------

VARIABLES
    all_source,         \* the argument of page_init: [metadata, code_doc_block_arr]
    mode_param,         \* the mode parameter of window.location.search
    editorMode,         \* the mode open_lp is called with
    current_metadata,   \* the module variable; Null before open_lp
    page,               \* "loading", "open", or "failed" when open_lp threw
    html,               \* the markup open_lp assigned to the body
    body,               \* the blocks of the page (see above)
    saved,              \* what on_save did: [state, code_doc_block_arr]
    edits               \* the number of input events so far

cvars == <<all_source, mode_param, editorMode, current_metadata, page, html, body,
           saved, edits>>

\* ------------------------------------------------------------------------
\* State of the server and of the editing sessions
\* ------------------------------------------------------------------------

VARIABLES
    now,            \* the clock the time stamps are read from
    disk,           \* path -> the document stored in the file
    mtime,          \* path -> the file's modification time
    file_cache,     \* ProjectState: cached path -> [timestamp, headings]
    anchor_table,   \* ProjectState: cached path -> the title of its anchor
    link_table,     \* ProjectState: the links <<from path, to path>>
    lock,           \* path -> the request inside its critical section, or 0
    unsaved,        \* path -> edits were pushed and not saved since
    sess,           \* session -> [path, loaded, shown]
    req,            \* request slot -> the request in it (see FreeRequest)
    alerts,         \* session -> the number of window.alert calls
    loadedFresh,    \* history: path -> loaded, and not modified since
    flushed,        \* history: path -> invalidated, and not recomputed since
    ops             \* the number of operations started so far

svars == <<now, disk, mtime, file_cache, anchor_table, link_table, lock, unsaved,
           sess, req, alerts, loadedFresh, flushed, ops>>

vars == <<cvars, svars>>

\* ------------------------------------------------------------------------
\* The server: documents, cache, pipeline
\*
\* A document is [title, link, hasId]: the title of its one heading, the
\* title shown by its auto-titled link to the other file (0: no link), and
\* whether the heading has an anchor identifier yet.
\* ------------------------------------------------------------------------

\* The most operations (requests, edits, file modifications) of a run.
MaxOps == 4

Paths == {"a", "b"}

Other(p) == IF p = "a" THEN "b" ELSE "a"

NoPath == "none"

Sessions == {1, 2}

Requests == {1, 2}

Titles == {1, 2}

\* The invalid time stamp: older than every modification time.
Sentinel == 0

NoDoc == [title |-> 0, link |-> 0, hasId |-> FALSE]

\* The files at the start: "a" links to the heading of "b".
InitialDisk ==
    [p \in Paths |-> [title |-> 1, link |-> IF p = "a" THEN 1 ELSE 0, hasId |-> FALSE]]

ClosedSession == [path |-> NoPath, loaded |-> FALSE, shown |-> NoDoc]

\* An empty request slot.  A request is
\*   kind      "load" or "save"            sess, path   who asked, for which file
\*   phase     "wait" (for the critical section), "cache", "xref",
\*             "finish", "reply" (the response is on its way)
\*   doc       the document in the pipeline  staged    the cache update, not
\*                                                     committed yet (<< >>: none)
\*   dirty, success, reloaded                the result
\*   ranCache, ranXref, wasFresh, wasFlushed history of the run
\*   raced     the file was modified on disk after the run read it
\*   snap      the cache as read when the critical section was entered
FreeRequest ==
    [kind |-> "none", sess |-> 0, path |-> NoPath, phase |-> "none", doc |-> NoDoc,
     staged |-> << >>, dirty |-> FALSE, success |-> FALSE, reloaded |-> FALSE,
     ranCache |-> FALSE, ranXref |-> FALSE, wasFresh |-> FALSE, wasFlushed |-> FALSE,
     raced |-> FALSE, snap |-> << >>]

\* A map with no key.
EmptyMap == [p \in {} |-> 0]

\* The map f with key k set to v.
Put(f, k, v) == [x \in DOMAIN f \cup {k} |-> IF x = k THEN v ELSE f[x]]

ServerStart ==
    /\ now = 1
    /\ disk = InitialDisk
    /\ mtime = [p \in Paths |-> 1]
    /\ file_cache = EmptyMap
    /\ anchor_table = EmptyMap
    /\ link_table = {}
    /\ lock = [p \in Paths |-> 0]
    /\ unsaved = [p \in Paths |-> FALSE]
    /\ sess = [s \in Sessions |-> ClosedSession]
    /\ req = [r \in Requests |-> FreeRequest]
    /\ alerts = [s \in Sessions |-> 0]
    /\ loadedFresh = [p \in Paths |-> FALSE]
    /\ flushed = [p \in Paths |-> FALSE]
    /\ ops = 0

\* No response to the PUT of save yet.
NoResponse == [fetch |-> "pending", ok |-> FALSE, json |-> "none", success |-> "undefined"]

\* on_save not called yet.  state is "none", then "threw" (on_save threw
\* before it called save), or "sent" (save awaits the response) and then
\* "done"; code_doc_block_arr is the body of the PUT; response, alerts and
\* threw are what save got, the number of its window.alert calls and
\* whether its promise was rejected.
NotSaved ==
    [state |-> "none", code_doc_block_arr |-> << >>, response |-> NoResponse,
     alerts |-> 0, threw |-> FALSE]

\* The client before open_lp runs.
ClientStart ==
    /\ current_metadata = Null
    /\ page = "loading"
    /\ html = << >>
    /\ body = << >>
    /\ saved = NotSaved
    /\ edits = 0

\* open_lp: store the metadata, render, assign the markup to the body and
\* make the editors.
open_lp ==
    /\ page = "loading"
    /\ current_metadata' = all_source.metadata
    /\ LET r == OpenLpHtml(all_source)
       IN  IF r.threw
           THEN /\ page' = "failed"
                /\ UNCHANGED <<html, body>>
           ELSE /\ page' = "open"
                /\ html' = r.html
                /\ body' = make_editors(ParseHTML(r.html), editorMode)
    /\ UNCHANGED <<all_source, mode_param, editorMode, saved, edits>>
    /\ UNCHANGED svars

\* on_save: read the editors back and hand the result to save.
on_save ==
    /\ page # "loading"
    /\ saved.state = "none"
    /\ LET r == editor_to_code_doc_blocks(body, current_metadata)
       IN  saved' = [saved EXCEPT !.state = IF r.threw THEN "threw" ELSE "sent",
                                  !.code_doc_block_arr = r.lines]
    /\ UNCHANGED <<all_source, mode_param, editorMode, current_metadata, page, html, body, edits>>
    /\ UNCHANGED svars

\* What window.fetch and the response can be: fetch rejects ("error") or
\* resolves with a response, whose ok is true for a 2xx status; the body is
\* not JSON ("unreadable": response.json() rejects), or an object whose
\* success is true, false, the string "true", or missing.
FetchOutcomes ==
    {[fetch |-> "error", ok |-> FALSE, json |-> "none", success |-> "undefined"]}
    \cup {[fetch |-> "response", ok |-> FALSE, json |-> j, success |-> "undefined"] :
             j \in {"unreadable", "object"}}
    \cup {[fetch |-> "response", ok |-> TRUE, json |-> "unreadable",
            success |-> "undefined"]}
    \cup {[fetch |-> "response", ok |-> TRUE, json |-> "object", success |-> v] :
             v \in {"true", "false", "string", "undefined"}}

\* save, from the response on: [alerts, threw].  The rejection of
\* response.json() is not caught.
SaveResult(response) ==
    IF response.fetch = "error" THEN [alerts |-> 1, threw |-> FALSE]
    ELSE IF response.ok
    THEN IF response.json # "object" THEN [alerts |-> 0, threw |-> TRUE]
         ELSE IF response.success # "true" THEN [alerts |-> 1, threw |-> FALSE]
         ELSE [alerts |-> 0, threw |-> FALSE]
    ELSE [alerts |-> 1, threw |-> FALSE]

\* save resumes when fetch settles.
save(response) ==
    /\ saved.state = "sent"
    /\ saved' = [saved EXCEPT !.state = "done",
                              !.response = response,
                              !.alerts = SaveResult(response).alerts,
                              !.threw = SaveResult(response).threw]
    /\ UNCHANGED <<all_source, mode_param, editorMode, current_metadata, page, html, body, edits>>
    /\ UNCHANGED svars

\* ------------------------------------------------------------------------
\* Input events
\* ------------------------------------------------------------------------

\* The most input events on one page.
MaxEdits == 2

\* The beforeinput events an indent cell receives.  data is Null for the
\* input types that carry none: deletions, and a drop, whose text is in
\* dataTransfer.  (A paste never gets this far: the cell's onpaste returns
\* false.)
IndentEvents ==
    {[inputType |-> "insertText", data |-> <<" ">>, dataTransfer |-> Null],
     [inputType |-> "insertText", data |-> <<"x">>, dataTransfer |-> Null],
     [inputType |-> "insertText", data |-> <<" ", "x">>, dataTransfer |-> Null],
     [inputType |-> "deleteContentBackward", data |-> Null, dataTransfer |-> Null],
     [inputType |-> "deleteContentForward", data |-> Null, dataTransfer |-> Null],
     [inputType |-> "insertFromDrop", data |-> Null, dataTransfer |-> <<"x">>]}

\* doc_block_indent_on_before_input: TRUE when it calls preventDefault.
\* event.data is falsy when null or empty.
doc_block_indent_on_before_input(event) ==
    /\ event.data # Null
    /\ event.data # << >>
    /\ event.data # Spaces(Len(event.data))

\* What the browser does to the text of the cell when the event is not
\* prevented (the caret at the end of the cell).
DefaultAction(text, event) ==
    IF event.inputType = "insertText" THEN text \o event.data
    ELSE IF event.inputType = "insertFromDrop" THEN text \o event.dataTransfer
    ELSE IF text = << >> THEN text
    ELSE SubSeq(text, 1, Len(text) - 1)

\* An input event on the indent cell of doc block i.  The cell is
\* contenteditable in the markup and make_editors adds the listener in
\* every mode.
IndentInput(i, event) ==
    /\ page = "open"
    /\ edits < MaxEdits
    /\ body[i].hasIndentCell
    /\ body' = [body EXCEPT ![i].indent =
                   IF doc_block_indent_on_before_input(event) THEN @
                   ELSE DefaultAction(@, event)]
    /\ edits' = edits + 1
    /\ UNCHANGED <<all_source, mode_param, editorMode, current_metadata, page, html, saved>>
    /\ UNCHANGED svars

\* The user types ch in the Ace editor of code block i: nothing happens
\* when the editor is read-only.
CodeInput(i, ch) ==
    /\ page = "open"
    /\ edits < MaxEdits
    /\ body[i].cls = "ACE"
    /\ body' = [body EXCEPT ![i].text = IF body[i].readOnly THEN @ ELSE Append(@, ch)]
    /\ edits' = edits + 1
    /\ UNCHANGED <<all_source, mode_param, editorMode, current_metadata, page, html, saved>>
    /\ UNCHANGED svars

\* The user types ch in doc block i: only a TinyMCE instance makes the div
\* editable.
DocInput(i, ch) ==
    /\ page = "open"
    /\ edits < MaxEdits
    /\ body[i].cls = "TinyMCE"
    /\ body' = [body EXCEPT ![i].text = IF body[i].tiny THEN Append(@, ch) ELSE @]
    /\ edits' = edits + 1
    /\ UNCHANGED <<all_source, mode_param, editorMode, current_metadata, page, html, saved>>
    /\ UNCHANGED svars

\* ------------------------------------------------------------------------
\* The page processing pipeline and the cached state
\* ------------------------------------------------------------------------

\* Session s has a request on its way.
InFlight(s) == \E r \in Requests : req[r].kind # "none" /\ req[r].sess = s

\* r is the first empty request slot.
FirstFree(r) ==
    /\ req[r].kind = "none"
    /\ \A q \in Requests : q < r => req[q].kind # "none"

\* What is cached for path p: its file_cache entry, its anchor, its links.
CacheOf(p) ==
    [entry |-> IF p \in DOMAIN file_cache THEN <<file_cache[p]>> ELSE << >>,
     anchor |-> IF p \in DOMAIN anchor_table THEN <<anchor_table[p]>> ELSE << >>,
     links |-> {l \in link_table : l[1] = p}]

\* A mutation of the staleness test: every entry is stale.
IsStaleAlways(p) == TRUE

\* The cache of p is stale: there is no entry, or its time stamp is older
\* than the file's modification time.
IsStale(p) == p \notin DOMAIN file_cache \/ file_cache[p].timestamp < mtime[p]

\* The cache hooks' walk over a document of path p: anchors without an
\* identifier get one (a change of the document), and the anchor and the
\* links found are to be cached.
CacheWalk(p, doc) ==
    [doc |-> [doc EXCEPT !.hasId = TRUE],
     changed |-> ~doc.hasId,
     staged |-> [anchor |-> doc.title,
                 links |-> IF doc.link # 0 THEN {<<p, Other(p)>>} ELSE {}]]

\* The cross-reference hooks: an auto-titled link shows the cached title of
\* its target.
XrefRewrite(p, doc) ==
    IF doc.link # 0 /\ Other(p) \in DOMAIN anchor_table
    THEN [doc EXCEPT !.link = anchor_table[Other(p)]]
    ELSE doc

\* A session opens a file: the webserver receives a request for it.
OpenFile(s, p, r) ==
    /\ ops < MaxOps
    /\ sess[s].path = NoPath
    /\ FirstFree(r)
    /\ sess' = [sess EXCEPT ![s] = [path |-> p, loaded |-> FALSE, shown |-> NoDoc]]
    /\ req' = [req EXCEPT ![r] = [FreeRequest EXCEPT !.kind = "load", !.sess = s,
                                                     !.path = p, !.phase = "wait"]]
    /\ ops' = ops + 1
    /\ UNCHANGED <<now, disk, mtime, file_cache, anchor_table, link_table, lock,
                   unsaved, alerts, loadedFresh, flushed>>
    /\ UNCHANGED cvars

\* on_save and the fetch of save: the content shown is sent in a PUT
\* request.  Nothing waits for an earlier save of the session.
SaveRequest(s, r) ==
    /\ ops < MaxOps
    /\ sess[s].loaded
    /\ FirstFree(r)
    /\ req' = [req EXCEPT ![r] = [FreeRequest EXCEPT !.kind = "save", !.sess = s,
                                                     !.path = sess[s].path,
                                                     !.phase = "wait",
                                                     !.doc = sess[s].shown]]
    /\ ops' = ops + 1
    /\ UNCHANGED <<now, disk, mtime, file_cache, anchor_table, link_table, lock,
                   unsaved, sess, alerts, loadedFresh, flushed>>
    /\ UNCHANGED cvars

\* A mutation of the critical section: a path can be entered at any time.
CanEnterAlways(p) == TRUE

\* The per-file critical section is free.
CanEnter(p) == lock[p] = 0

\* A request enters the critical section of its path.
Acquire(r) ==
    /\ req[r].phase = "wait"
    /\ CanEnter(req[r].path)
    /\ lock' = [lock EXCEPT ![req[r].path] = r]
    /\ req' = [req EXCEPT ![r].phase = "cache", ![r].snap = <<CacheOf(req[r].path)>>]
    /\ UNCHANGED <<now, disk, mtime, file_cache, anchor_table, link_table, unsaved,
                   sess, alerts, loadedFresh, flushed, ops>>
    /\ UNCHANGED cvars

\* HTML hooks, first part.  On load the cache of the file is updated only
\* if it is stale; on save it is updated always.  The update is staged.
CacheStage(r) ==
    /\ req[r].phase = "cache"
    /\ LET q == req[r]
           input == IF q.kind = "load" THEN disk[q.path] ELSE q.doc
           run == q.kind = "save" \/ IsStale(q.path)
           walk == CacheWalk(q.path, input)
       IN  req' = [req EXCEPT ![r] =
                      [q EXCEPT !.phase = "xref",
                                !.doc = IF run THEN walk.doc ELSE input,
                                !.staged = IF run THEN <<walk.staged>> ELSE << >>,
                                !.dirty = run /\ walk.changed,
                                !.ranCache = run,
                                !.wasFresh = loadedFresh[q.path],
                                !.wasFlushed = flushed[q.path]]]
    /\ UNCHANGED <<now, disk, mtime, file_cache, anchor_table, link_table, lock,
                   unsaved, sess, alerts, loadedFresh, flushed, ops>>
    /\ UNCHANGED cvars

\* HTML hooks, second part: the tags whose contents depend on other files
\* are always updated; a difference marks the file dirty.
XrefStage(r) ==
    /\ req[r].phase = "xref"
    /\ LET q == req[r]
           doc2 == XrefRewrite(q.path, q.doc)
       IN  req' = [req EXCEPT ![r] =
                      [q EXCEPT !.phase = "finish",
                                !.doc = doc2,
                                !.dirty = q.dirty \/ doc2 # q.doc,
                                !.ranXref = TRUE]]
    /\ UNCHANGED <<now, disk, mtime, file_cache, anchor_table, link_table, lock,
                   unsaved, sess, alerts, loadedFresh, flushed, ops>>
    /\ UNCHANGED cvars

\* The time stamp a committed cache update gets, t the current time.
CommitStamp(t) == t

\* The end of the pipeline.  A save writes the file; the staged cache
\* update, if any, is committed with the current time; a dirty save re-loads
\* the file; the critical section is left and the response sent.
Finish(r) ==
    /\ req[r].phase = "finish"
    /\ LET q == req[r]
           p == q.path
           t == IF q.kind = "save" THEN now + 1 ELSE now
       IN  /\ now' = t
           /\ IF q.kind = "save"
              THEN /\ disk' = [disk EXCEPT ![p] = q.doc]
                   /\ mtime' = [mtime EXCEPT ![p] = t]
                   /\ unsaved' = [unsaved EXCEPT ![p] = FALSE]
              ELSE UNCHANGED <<disk, mtime, unsaved>>
           /\ IF q.staged # << >>
              THEN /\ file_cache' = Put(file_cache, p,
                                        [timestamp |-> CommitStamp(t),
                                         headings |-> <<"h1">>])
                   /\ anchor_table' = Put(anchor_table, p, q.staged[1].anchor)
                   /\ link_table' = {l \in link_table : l[1] # p} \cup q.staged[1].links
                   /\ flushed' = [flushed EXCEPT ![p] = FALSE]
              ELSE UNCHANGED <<file_cache, anchor_table, link_table, flushed>>
           /\ loadedFresh' = [loadedFresh EXCEPT ![p] =
                                 IF q.kind = "load" THEN ~q.raced ELSE q.dirty]
           /\ lock' = [lock EXCEPT ![p] = 0]
           /\ req' = [req EXCEPT ![r] =
                         [q EXCEPT !.phase = "reply", !.success = TRUE,
                                   !.reloaded = (q.kind = "save" /\ q.dirty),
                                   !.staged = << >>, !.snap = << >>,
                                   !.raced = FALSE]]
    /\ UNCHANGED <<sess, alerts, ops>>
    /\ UNCHANGED cvars

\* A mutation of the failure: the failed run still marks the entry fresh.
FailCacheMarkedFresh(p) ==
    IF p \in DOMAIN file_cache
    THEN [file_cache EXCEPT ![p].timestamp = now]
    ELSE file_cache

\* The file cache after a stage of the pipeline for path p failed: as it
\* was.
FailCache(p) == file_cache

\* A stage of the pipeline fails: the run is aborted, what was staged is
\* dropped and the failure is reported.
Fail(r) ==
    /\ req[r].phase \in {"cache", "xref", "finish"}
    /\ file_cache' = FailCache(req[r].path)
    /\ lock' = [lock EXCEPT ![req[r].path] = 0]
    /\ req' = [req EXCEPT ![r] =
                  [@ EXCEPT !.phase = "reply", !.success = FALSE, !.dirty = FALSE,
                            !.staged = << >>, !.snap = << >>, !.raced = FALSE]]
    /\ UNCHANGED <<now, disk, mtime, anchor_table, link_table, unsaved, sess,
                   alerts, loadedFresh, flushed, ops>>
    /\ UNCHANGED cvars

\* What the session shows after save has handled the response q to a PUT:
\* what it showed before; save only tells a failure.
ShownAfterSave(shown, q) == shown

\* The client handles a response.  The response to a load is the page
\* shown; the response to a save is handled by save, which alerts unless
\* the response is ok and its body has success true.
Response(r) ==
    /\ req[r].phase = "reply"
    /\ LET q == req[r]
       IN  IF q.kind = "load"
           THEN /\ sess' = [sess EXCEPT ![q.sess].loaded = q.success,
                                        ![q.sess].shown = IF q.success THEN q.doc ELSE @]
                /\ UNCHANGED alerts
           ELSE /\ sess' = [sess EXCEPT ![q.sess].shown = ShownAfterSave(@, q)]
                /\ alerts' = [alerts EXCEPT ![q.sess] = IF q.success THEN @ ELSE @ + 1]
    /\ req' = [req EXCEPT ![r] = FreeRequest]
    /\ UNCHANGED <<now, disk, mtime, file_cache, anchor_table, link_table, lock,
                   unsaved, loadedFresh, flushed, ops>>
    /\ UNCHANGED cvars

\* An edit of a cached item (the title of the heading) is pushed to the
\* server, which updates its state and propagates the edit to the open
\* windows of the file.
EditPush(s, t) ==
    /\ ops < MaxOps
    /\ sess[s].loaded
    /\ t # sess[s].shown.title
    /\ CanEnter(sess[s].path)
    /\ LET p == sess[s].path
       IN  /\ sess' = [x \in Sessions |->
                          IF sess[x].path = p /\ sess[x].loaded
                          THEN [sess[x] EXCEPT !.shown.title = t]
                          ELSE sess[x]]
           /\ anchor_table' = IF p \in DOMAIN anchor_table
                              THEN [anchor_table EXCEPT ![p] = t]
                              ELSE anchor_table
           /\ unsaved' = [unsaved EXCEPT ![p] = TRUE]
    /\ ops' = ops + 1
    /\ UNCHANGED <<now, disk, mtime, file_cache, link_table, lock, req, alerts,
                   loadedFresh, flushed>>
    /\ UNCHANGED cvars

\* A mutation of the flush: the entry is removed from the cache.
FlushRemovesEntry(p) == [x \in DOMAIN file_cache \ {p} |-> file_cache[x]]

\* A mutation of the flush: nothing is done.
FlushNothing(p) == file_cache

\* The flush of the cache state of p: the time stamp of the file is set to
\* something old.
Flush(p) ==
    IF p \in DOMAIN file_cache
    THEN [file_cache EXCEPT ![p].timestamp = Sentinel]
    ELSE file_cache

\* A session closes its file.  If the file is modified and was not saved,
\* its cache state is flushed.
CloseFile(s) ==
    /\ sess[s].path # NoPath
    /\ ~InFlight(s)
    /\ CanEnter(sess[s].path)
    /\ LET p == sess[s].path
       IN  /\ file_cache' = IF unsaved[p] THEN Flush(p) ELSE file_cache
           /\ flushed' = [flushed EXCEPT ![p] = @ \/ unsaved[p]]
           /\ loadedFresh' = [loadedFresh EXCEPT ![p] = @ /\ ~unsaved[p]]
           /\ unsaved' = [unsaved EXCEPT ![p] =
                             @ /\ \E x \in Sessions \ {s} : sess[x].path = p]
    /\ sess' = [sess EXCEPT ![s] = ClosedSession]
    /\ UNCHANGED <<now, disk, mtime, anchor_table, link_table, lock, req, alerts, ops>>
    /\ UNCHANGED cvars

\* The file of path p is modified outside the editor.
ModifyOnDisk(p, t) ==
    /\ ops < MaxOps
    /\ t # disk[p].title
    /\ disk' = [disk EXCEPT ![p].title = t]
    /\ now' = now + 1
    /\ mtime' = [mtime EXCEPT ![p] = now + 1]
    /\ loadedFresh' = [loadedFresh EXCEPT ![p] = FALSE]
    /\ req' = [r \in Requests |->
                  IF req[r].path = p /\ req[r].phase \in {"xref", "finish"}
                  THEN [req[r] EXCEPT !.raced = TRUE]
                  ELSE req[r]]
    /\ ops' = ops + 1
    /\ UNCHANGED <<file_cache, anchor_table, link_table, lock, unsaved, sess,
                   alerts, flushed>>
    /\ UNCHANGED cvars

\* ------------------------------------------------------------------------
\* Rendering and saving unedited: every input, edit mode
\* ------------------------------------------------------------------------

InitRender ==
    /\ all_source \in [metadata : {[mode |-> "javascript"]},
                       code_doc_block_arr : BlockArrays]
    /\ mode_param = NoModeParam
    /\ editorMode = page_init(mode_param)
    /\ ClientStart
    /\ ServerStart

NextRender == open_lp \/ on_save

SpecRender == InitRender /\ [][NextRender]_vars

\* ------------------------------------------------------------------------
\* Editing: a few pages, every mode, every input event
\* ------------------------------------------------------------------------

\* The entries of the pages edited: a line of code and a line of
\* documentation, indented or not.
EditEntries ==
    {<< << >>, << >>, <<"a", "\n">> >>}
    \cup {<<ind, <<"/", "/">>, <<"a", "\n">> >> : ind \in Indents}

InitEdit ==
    /\ all_source \in [metadata : {[mode |-> "javascript"]},
                       code_doc_block_arr : [1..2 -> EditEntries]]
    /\ mode_param \in ModeParams
    /\ editorMode = page_init(mode_param)
    /\ ClientStart
    /\ ServerStart

NextEdit ==
    \/ open_lp
    \/ \E i \in DOMAIN body, event \in IndentEvents : IndentInput(i, event)
    \/ \E i \in DOMAIN body : CodeInput(i, "b")
    \/ \E i \in DOMAIN body : DocInput(i, "b")
    \/ on_save
    \/ \E response \in FetchOutcomes : save(response)

SpecEdit == InitEdit /\ [][NextEdit]_vars

\* ------------------------------------------------------------------------
\* Saving a page as editor_to_code_doc_blocks may find it
\* ------------------------------------------------------------------------

\* The elements querySelectorAll(".CodeChat-ACE, .CodeChat-TinyMCE") may
\* return on the page of a source file in edit mode: Ace editors, and
\* TinyMCE editors after an indent cell, with a data-CodeChat-comment
\* attribute or without one.
DomBlocks ==
    {[cls |-> "ACE", firstLineNumber |-> 1, hasIndentCell |-> FALSE,
      indent |-> << >>, comment |-> Null, text |-> t, readOnly |-> FALSE,
      tiny |-> FALSE] : t \in {<< >>, <<"a">>, <<"a", "\n", "b">>}}
    \cup {[cls |-> "TinyMCE", firstLineNumber |-> 0, hasIndentCell |-> TRUE,
           indent |-> i, comment |-> c, text |-> t, readOnly |-> FALSE,
           tiny |-> TRUE] :
             i \in Indents, c \in DocDelimiters,
             t \in {<< >>, <<"a">>, <<"a", "\n", "b">>}}

InitDom ==
    /\ all_source = [metadata |-> [mode |-> "javascript"], code_doc_block_arr |-> << >>]
    /\ mode_param = NoModeParam
    /\ editorMode = page_init(mode_param)
    /\ current_metadata = all_source.metadata
    /\ page = "open"
    /\ html = << >>
    /\ body \in UNION {[1..n -> DomBlocks] : n \in 1..2}
    /\ saved = NotSaved
    /\ edits = 0
    /\ ServerStart

NextDom == on_save

SpecDom == InitDom /\ [][NextDom]_vars

\* ------------------------------------------------------------------------
\* A CodeChat Editor document (not a source file), edit mode
\* ------------------------------------------------------------------------

\* The contents of the entries of a document: markup, with or without a
\* final newline.
DocOnlyContents == {<<"a">>, <<"a", "\n">>, <<"b", "\n">>, <<"a", "\n", "b", "\n">>}

InitDocOnly ==
    /\ all_source \in
           [metadata : {[mode |-> "codechat-html"]},
            code_doc_block_arr :
                UNION {[1..n -> {<< << >>, << >>, c >> : c \in DocOnlyContents}] :
                          n \in 0..MaxEntries}]
    /\ mode_param = NoModeParam
    /\ editorMode = page_init(mode_param)
    /\ ClientStart
    /\ ServerStart

NextDocOnly == open_lp \/ on_save

SpecDocOnly == InitDocOnly /\ [][NextDocOnly]_vars

\* ------------------------------------------------------------------------
\* The server with two sessions
\* ------------------------------------------------------------------------

InitServer ==
    /\ all_source = [metadata |-> [mode |-> "javascript"], code_doc_block_arr |-> << >>]
    /\ mode_param = NoModeParam
    /\ editorMode = page_init(mode_param)
    /\ ClientStart
    /\ ServerStart

NextServer ==
    \/ \E s \in Sessions, p \in Paths, r \in Requests : OpenFile(s, p, r)
    \/ \E s \in Sessions, r \in Requests : SaveRequest(s, r)
    \/ \E r \in Requests : Acquire(r)
    \/ \E r \in Requests : CacheStage(r)
    \/ \E r \in Requests : XrefStage(r)
    \/ \E r \in Requests : Finish(r)
    \/ \E r \in Requests : Fail(r)
    \/ \E r \in Requests : Response(r)
    \/ \E s \in Sessions, t \in Titles : EditPush(s, t)
    \/ \E s \in Sessions : CloseFile(s)
    \/ \E p \in Paths, t \in Titles : ModifyOnDisk(p, t)

SpecServer == InitServer /\ [][NextServer]_vars

\* ------------------------------------------------------------------------
\* Properties of rendering and saving (SpecRender)
\* ------------------------------------------------------------------------

\* The entry's content is one line ended by "\n".
OneLine(entry) ==
    /\ MatchFinalNewline(entry[3])
    /\ \A k \in 1..(Len(entry[3]) - 1) : entry[3][k] # "\n"

\* C1: for a source file whose entries are each one line ending in "\n",
\* rendering and then saving the unedited editors returns the entries
\* submitted: the same (indent, delimiter, content) triples in the same
\* order.  Stated here for the entries a lexer produces from a file with
\* "\n" line ends: the delimiter is a string and no line holds a "\r".
C1_RoundTripLossless ==
    (/\ saved.state # "none"
     /\ ~is_doc_only(all_source.metadata)
     /\ \A i \in DOMAIN all_source.code_doc_block_arr :
            /\ OneLine(all_source.code_doc_block_arr[i])
            /\ IsString(all_source.code_doc_block_arr[i][2])
            /\ \A k \in DOMAIN all_source.code_doc_block_arr[i][3] :
                   all_source.code_doc_block_arr[i][3][k] # "\r")
    => /\ saved.state = "sent"
       /\ saved.code_doc_block_arr = all_source.code_doc_block_arr

\* The indices at which a run of entries with equal delimiter starts.
RunStarts(arr) == {i \in DOMAIN arr : i = 1 \/ arr[i][2] # arr[i - 1][2]}

\* The last index of the run that starts at i.
RunEnd(arr, i) ==
    CHOOSE j \in i..Len(arr) :
        /\ \A k \in i..j : arr[k][2] = arr[i][2]
        /\ j = Len(arr) \/ arr[j + 1][2] # arr[i][2]

\* The contents of entries i..j, one after the other.
RECURSIVE ConcatContents(_, _, _)
ConcatContents(arr, i, j) ==
    IF i > j THEN << >> ELSE arr[i][3] \o ConcatContents(arr, i + 1, j)

\* The blocks of a markup: for each opening markup, the text pushed after
\* it up to the next markup, as displayed (a code block's character
\* references decoded).
RECURSIVE MarkupBlocks(_, _)
MarkupBlocks(tokens, n) ==
    IF n = 0 THEN << >>
    ELSE LET before == MarkupBlocks(tokens, n - 1)
             tok == tokens[n]
         IN  IF tok.t \in {"code_open", "doc_open", "doc_only_open"}
             THEN Append(before, [open |-> tok, raw |-> << >>, closed |-> FALSE])
             ELSE IF before = << >> THEN before
             ELSE IF tok.t = "text" /\ ~before[Len(before)].closed
             THEN [before EXCEPT ![Len(before)].raw = @ \o tok.s]
             ELSE [before EXCEPT ![Len(before)].closed = TRUE]

DisplayedText(block) ==
    IF block.open.t = "code_open" THEN DecodeEntities(block.raw) ELSE block.raw

\* C2: when every entry ends in "\n", the page opens, the markup has one
\* block per run of entries with equal delimiter, and the text of each block
\* followed by one "\n" is the contents of its entries one after the other:
\* the lines of a block are separated by the newline of the line before, and
\* the block does not end with the newline of its last line.
C2_NewlineMigration ==
    LET arr == all_source.code_doc_block_arr
        blocks == MarkupBlocks(html, Len(html))
    IN  (/\ page # "loading"
         /\ \A i \in DOMAIN arr : MatchFinalNewline(arr[i][3]))
        => /\ page = "open"
           /\ Len(blocks) = Cardinality(RunStarts(arr))
           /\ \A i \in RunStarts(arr) :
                  LET b == blocks[Cardinality({j \in RunStarts(arr) : j <= i})]
                  IN  DisplayedText(b) \o <<"\n">> = ConcatContents(arr, i, RunEnd(arr, i))

\* A page is open whose first two lines are one code block and whose third
\* line is a doc block.
C2_Witness ==
    LET arr == all_source.code_doc_block_arr
    IN  /\ page = "open"
        /\ Len(arr) = 3
        /\ \A i \in DOMAIN arr : MatchFinalNewline(arr[i][3])
        /\ arr[1][2] = << >> /\ arr[2][2] = << >> /\ arr[3][2] = <<"/", "/">>
        /\ Len(MarkupBlocks(html, Len(html))) = 2

\* ------------------------------------------------------------------------
\* Properties of editing (SpecEdit)
\* ------------------------------------------------------------------------

\* C9: after any sequence of input events the indent of every doc block
\* consists of spaces only.
C9_IndentSpacesOnly ==
    page = "open" =>
        \A i \in DOMAIN body :
            body[i].hasIndentCell => body[i].indent = Spaces(Len(body[i].indent))

\* C10: in view and toc mode no TinyMCE editor exists, every Ace editor is
\* read-only, and the blocks are as rendered whatever the user's input
\* events.
C10_ViewModeNoEditing ==
    (page = "open" /\ editorMode \in {EditorMode.view, EditorMode.toc})
    => /\ \A i \in DOMAIN body : ~body[i].tiny
       /\ \A i \in DOMAIN body : body[i].cls = "ACE" => body[i].readOnly
       /\ body = make_editors(ParseHTML(html), editorMode)

\* ------------------------------------------------------------------------
\* Properties of the server and the sessions (SpecServer)
\* ------------------------------------------------------------------------

\* The phases of a request inside the critical section of its path.
Critical == {"cache", "xref", "finish"}

\* C3: when the client handles the response to a save that a stage marked
\* dirty, the file has been re-loaded and the session shows the refreshed
\* rendering; after a save that is not dirty it shows what it showed.
C3_ReloadAfterDirtySave ==
    [][\A r \in Requests :
          (req[r].kind = "save" /\ req[r].phase = "reply" /\ req'[r].kind = "none")
          => IF req[r].success /\ req[r].dirty
             THEN req[r].reloaded /\ sess'[req[r].sess].shown = req[r].doc
             ELSE sess'[req[r].sess].shown = sess[req[r].sess].shown]_vars

\* C4: once a load of P has succeeded, and as long as P is not modified
\* (written by a save or from outside, or flushed by the close of unsaved
\* edits; a modification while the load ran counts), the time stamp of P's
\* entry is at least P's modification time and a load of P does not run
\* the cache hooks; every successful load has run the cross-reference hooks.
C4_CacheFreshness ==
    /\ \A p \in Paths :
           loadedFresh[p] => /\ p \in DOMAIN file_cache
                             /\ file_cache[p].timestamp >= mtime[p]
    /\ \A r \in Requests :
           (req[r].kind = "load" /\ req[r].phase \in {"xref", "finish", "reply"}
            /\ req[r].wasFresh) => ~req[r].ranCache
    /\ \A r \in Requests :
           (req[r].kind = "load" /\ req[r].phase = "reply" /\ req[r].success)
           => req[r].ranXref

\* A second load of a file, loaded before and not modified since, has passed
\* the cache hooks without running them and has run the cross-reference
\* hooks.
C4_Witness ==
    \E r \in Requests :
        /\ req[r].kind = "load" /\ req[r].phase = "reply" /\ req[r].success
        /\ req[r].wasFresh /\ ~req[r].ranCache /\ req[r].ranXref

\* C5: a load of P that finds P's cache state flushed by the close of
\* unsaved edits, and not recomputed since, runs the cache hooks.
C5_InvalidationForcesRecompute ==
    \A r \in Requests :
        (req[r].kind = "load" /\ req[r].phase \in {"xref", "finish", "reply"}
         /\ req[r].wasFlushed) => req[r].ranCache

\* A load ran the cache hooks for a flushed file that was never modified on
\* disk.
C5_Witness ==
    \E r \in Requests :
        /\ req[r].kind = "load" /\ req[r].phase \in {"xref", "finish"}
        /\ req[r].wasFlushed /\ req[r].ranCache
        /\ mtime[req[r].path] = 1
        /\ disk[req[r].path] = InitialDisk[req[r].path]

\* C6: no two requests are inside the critical section of one path; while
\* a request is inside, what is cached for its path is what it read on
\* entering; and a waiting request whose path is free can enter, whatever
\* happens on other paths.
C6_PerPathSerialization ==
    /\ \A r1, r2 \in Requests :
           (r1 # r2 /\ req[r1].phase \in Critical /\ req[r2].phase \in Critical)
           => req[r1].path # req[r2].path
    /\ \A r \in Requests :
           req[r].phase \in Critical
           => lock[req[r].path] = r /\ req[r].snap = <<CacheOf(req[r].path)>>
    /\ \A r \in Requests :
           (req[r].phase = "wait" /\ lock[req[r].path] = 0) => ENABLED Acquire(r)

\* Two saves of one session are on their way at once: one is inside the
\* critical section of the path and the other waits for it.
C6_Witness ==
    \E r1, r2 \in Requests :
        /\ req[r1].kind = "save" /\ req[r2].kind = "save"
        /\ req[r1].sess = req[r2].sess
        /\ req[r1].phase \in Critical /\ req[r2].phase = "wait"

\* C7: a failed run leaves the whole cache as it was; a run that commits a
\* cache update advances the time stamp of its path to the current time and
\* changes the entry of no other path.
C7_AtomicCacheUpdate ==
    [][\A r \in Requests :
          /\ (req[r].phase \in Critical /\ req'[r].phase = "reply" /\ ~req'[r].success)
             => /\ file_cache' = file_cache
                /\ anchor_table' = anchor_table
                /\ link_table' = link_table
          /\ (req[r].phase = "finish" /\ req'[r].phase = "reply" /\ req'[r].success
              /\ req[r].staged # << >>)
             => /\ file_cache'[req[r].path].timestamp = now'
                /\ req[r].path \in DOMAIN file_cache
                   => file_cache'[req[r].path].timestamp
                          > file_cache[req[r].path].timestamp
                /\ \A x \in DOMAIN file_cache \ {req[r].path} :
                       file_cache'[x] = file_cache[x]]_vars

\* A run failed after its cache hooks ran, and the entry of its path is
\* still stale.
C7_Witness ==
    \E r \in Requests :
        /\ req[r].phase = "reply" /\ ~req[r].success /\ req[r].ranCache
        /\ req[r].path \in DOMAIN file_cache
        /\ IsStale(req[r].path)

\* C8: the close of a file changes nothing but, when the file has unsaved
\* edits, the time stamp of its entry, which becomes the sentinel; and no
\* step removes a path from the file cache.
C8_InvalidationFrame ==
    [][/\ \A s \in Sessions :
              (sess[s].path # NoPath /\ sess'[s].path = NoPath)
              => /\ anchor_table' = anchor_table
                 /\ link_table' = link_table
                 /\ disk' = disk /\ mtime' = mtime
                 /\ DOMAIN file_cache' = DOMAIN file_cache
                 /\ \A x \in DOMAIN file_cache :
                        file_cache'[x] =
                            IF x = sess[s].path /\ unsaved[x]
                            THEN [file_cache[x] EXCEPT !.timestamp = Sentinel]
                            ELSE file_cache[x]
       /\ DOMAIN file_cache \subseteq DOMAIN file_cache']_vars

\* A file's entry was invalidated and its anchor is still in the table.
C8_Witness ==
    \E p \in Paths :
        /\ flushed[p]
        /\ p \in DOMAIN file_cache /\ file_cache[p].timestamp = Sentinel
        /\ file_cache[p].headings = <<"h1">>
        /\ p \in DOMAIN anchor_table

\* ------------------------------------------------------------------------
\* Properties of the markup (SpecRender)
\* ------------------------------------------------------------------------

\* The delimiter a block of the markup shows: "" for a code block, the
\* data-CodeChat-comment attribute for a doc block.
BlockDelimiter(block) ==
    IF block.open.t = "code_open" THEN << >> ELSE block.open.comment

\* The block of the markup that the run starting at entry i is rendered as.
BlockOfRun(arr, blocks, i) ==
    blocks[Cardinality({j \in RunStarts(arr) : j <= i})]

\* C11: the markup of a source file has one block per maximal run of
\* entries with equal delimiter, adjacent blocks differ in their delimiter,
\* and each block is of the kind of its run: a code block, or a doc block
\* with the indent and the delimiter of the first entry of the run.
C11_BlockMerging ==
    LET arr == all_source.code_doc_block_arr
        blocks == MarkupBlocks(html, Len(html))
    IN  page = "open"
        => /\ Len(blocks) = Cardinality(RunStarts(arr))
           /\ \A k \in 1..(Len(blocks) - 1) :
                  BlockDelimiter(blocks[k]) # BlockDelimiter(blocks[k + 1])
           /\ \A i \in RunStarts(arr) :
                  LET b == BlockOfRun(arr, blocks, i)
                  IN  IF arr[i][2] = << >>
                      THEN b.open.t = "code_open"
                      ELSE /\ b.open.t = "doc_open"
                           /\ b.open.indent = arr[i][1]
                           /\ b.open.comment = ToStr(arr[i][2])

\* Two doc lines with one delimiter and different indents are one block,
\* which shows the indent of the first; the code line after them is the
\* second block.
C11_Witness ==
    LET arr == all_source.code_doc_block_arr
        blocks == MarkupBlocks(html, Len(html))
    IN  /\ page = "open"
        /\ Len(arr) = 3
        /\ arr[1][2] = <<"/", "/">> /\ arr[2][2] = <<"/", "/">> /\ arr[3][2] = << >>
        /\ arr[1][1] = <<" ">> /\ arr[2][1] = << >>
        /\ Len(blocks) = 2
        /\ blocks[1].open.indent = <<" ">>

\* The newline removed from the end of contents: "\n", or nothing.
RemovedNewline(contents) ==
    IF MatchFinalNewline(contents) THEN <<"\n">> ELSE << >>

\* The text of the block of entries i..j when each entry is preceded by the
\* newline removed from the entry before it.
RECURSIVE JoinRun(_, _, _)
JoinRun(arr, i, j) ==
    IF i = j THEN StripFinalNewline(arr[i][3])
    ELSE JoinRun(arr, i, j - 1) \o RemovedNewline(arr[j - 1][3])
             \o StripFinalNewline(arr[j][3])

\* C12: classified_source_to_html completes for every input, and in each
\* block the text put between an entry and the entry before it is the
\* newline removed from the entry before it.
C12_PrependedNewline ==
    LET arr == all_source.code_doc_block_arr
        blocks == MarkupBlocks(html, Len(html))
    IN  page # "loading"
        => /\ page = "open"
           /\ \A i \in RunStarts(arr) :
                  DisplayedText(BlockOfRun(arr, blocks, i))
                      = JoinRun(arr, i, RunEnd(arr, i))

\* ------------------------------------------------------------------------
\* Properties of saving (SpecDom, SpecRender)
\* ------------------------------------------------------------------------

\* C13: editor_to_code_doc_blocks completes, and the delimiters of the
\* entries returned are those of the blocks: "" for a code block, the
\* data-CodeChat-comment attribute of a doc block, and null for a doc block
\* without the attribute.
C13_DefaultDelimiter ==
    saved.state # "none"
    => /\ saved.state = "sent"
       /\ {saved.code_doc_block_arr[k][2] : k \in DOMAIN saved.code_doc_block_arr}
              = {IF body[i].cls = "ACE" THEN << >> ELSE body[i].comment :
                    i \in DOMAIN body}

\* The block open after the first n pieces of the markup: "none", "code" or
\* "doc"; "bad" when a block was opened inside an open block, closed by the
\* closing markup of the other kind or closed while none was open, or when
\* text lies outside every block.
RECURSIVE OpenAfter(_, _)
OpenAfter(tokens, n) ==
    IF n = 0 THEN "none"
    ELSE LET before == OpenAfter(tokens, n - 1)
             t == tokens[n].t
         IN  IF before = "bad" THEN "bad"
             ELSE IF t = "code_open" THEN (IF before = "none" THEN "code" ELSE "bad")
             ELSE IF t = "doc_open" THEN (IF before = "none" THEN "doc" ELSE "bad")
             ELSE IF t = "code_close" THEN (IF before = "code" THEN "none" ELSE "bad")
             ELSE IF t = "doc_close" THEN (IF before = "doc" THEN "none" ELSE "bad")
             ELSE IF t = "text" THEN (IF before = "none" THEN "bad" ELSE before)
             ELSE "bad"

\* C14: in the markup classified_source_to_html returns every block opened
\* is closed once, by the closing markup of its kind, before the next block
\* is opened or at the end; the markup of no entries is empty.
C14_BalancedMarkup ==
    page = "open"
    => /\ OpenAfter(html, Len(html)) = "none"
       /\ all_source.code_doc_block_arr = << >> => html = << >>

\* The source lines of entries 1..n: each line break of their contents, the
\* terminating one included, is one line, a "\r\n" pair being one break.
RECURSIVE SourceLines(_, _)
SourceLines(arr, n) ==
    IF n = 0 THEN 0
    ELSE SourceLines(arr, n - 1) + CountLineBreaks(arr[n][3])

\* C15: when every entry ends in "\n", each code block of the markup has as
\* its first line number 1 plus the number of source lines of the entries
\* before it, and the numbers increase along the code blocks.
C15_LineNumbers ==
    LET arr == all_source.code_doc_block_arr
        blocks == MarkupBlocks(html, Len(html))
    IN  (/\ page = "open"
         /\ \A i \in DOMAIN arr : MatchFinalNewline(arr[i][3]))
        => /\ \A i \in RunStarts(arr) :
                  arr[i][2] = << >>
                  => BlockOfRun(arr, blocks, i).open.firstLineNumber
                         = 1 + SourceLines(arr, i - 1)
           /\ \A k, l \in DOMAIN blocks :
                  (k < l /\ blocks[k].open.t = "code_open"
                   /\ blocks[l].open.t = "code_open")
                  => blocks[k].open.firstLineNumber < blocks[l].open.firstLineNumber

\* The number of "\n" in text.
RECURSIVE Newlines(_)
Newlines(text) ==
    IF text = << >> THEN 0
    ELSE (IF Head(text) = "\n" THEN 1 ELSE 0) + Newlines(Tail(text))

\* The number of entries the first n blocks of the page are saved as: one
\* per line.
RECURSIVE EntriesBefore(_, _)
EntriesBefore(blocks, n) ==
    IF n = 0 THEN 0
    ELSE EntriesBefore(blocks, n - 1) + 1 + Newlines(blocks[n].text)

\* C16: what on_save sends has, block after block, one entry per line of
\* the block; the content of an entry is one line ended by its only "\n";
\* the entries of a code block have indent "" and delimiter "", those of a
\* doc block its indent and its delimiter; a block without text is one
\* entry with content "\n".
C16_SavedShape ==
    LET lines == saved.code_doc_block_arr
    IN  saved.state = "sent"
        => /\ Len(lines) = EntriesBefore(body, Len(body))
           /\ \A k \in DOMAIN lines :
                  /\ OneLine(lines[k])
           /\ \A i \in DOMAIN body :
                  \A k \in (EntriesBefore(body, i - 1) + 1)..EntriesBefore(body, i) :
                      /\ lines[k][1] = IF body[i].cls = "ACE" THEN << >> ELSE body[i].indent
                      /\ lines[k][2] = IF body[i].cls = "ACE" THEN << >> ELSE body[i].comment
                      /\ body[i].text = << >> => lines[k][3] = <<"\n">>

\* A page of a code block without text and an indented doc block of two
\* lines was saved as three entries.
C16_Witness ==
    /\ saved.state = "sent"
    /\ Len(body) = 2
    /\ body[1].cls = "ACE" /\ body[1].text = << >>
    /\ body[2].cls = "TinyMCE" /\ body[2].indent = <<" ">>
    /\ Newlines(body[2].text) = 1
    /\ Len(saved.code_doc_block_arr) = 3

\* ------------------------------------------------------------------------
\* Properties of save (SpecEdit)
\* ------------------------------------------------------------------------

\* C17: on_save sends the content of the editors as it is when on_save is
\* called, and what was sent does not change; save ends without throwing,
\* with no alert when the response is ok and its body has success true, and
\* with one alert otherwise.
C17_FailedSaveReportedOnce ==
    [][/\ (saved.state = "none" /\ saved'.state = "sent")
          => saved'.code_doc_block_arr
                 = editor_to_code_doc_blocks(body, current_metadata).lines
       /\ saved.state = "sent"
          => saved'.code_doc_block_arr = saved.code_doc_block_arr
       /\ (saved.state = "sent" /\ saved'.state = "done")
          => /\ ~saved'.threw
             /\ saved'.alerts =
                    IF /\ saved'.response.fetch = "response"
                       /\ saved'.response.ok
                       /\ saved'.response.json = "object"
                       /\ saved'.response.success = "true"
                    THEN 0 ELSE 1]_vars

\* ------------------------------------------------------------------------
\* Properties of a CodeChat Editor document (SpecDocOnly)
\* ------------------------------------------------------------------------

\* C18: a CodeChat Editor document with a first block opens as one
\* rich-text block holding the content of that block, put into the page as
\* it is; what on_save sends has indent "" and delimiter "" in every entry,
\* and its contents, one after the other, are the contents of the block
\* array submitted (the last line gets a final newline if it had none).
C18_DocOnlyBypass ==
    LET arr == all_source.code_doc_block_arr
        lines == saved.code_doc_block_arr
    IN  (arr # << >> /\ page # "loading")
        => /\ page = "open"
           /\ html = <<DocOnlyOpen, Text(arr[1][3]), DocOnlyClose>>
           /\ Len(body) = 1 /\ body[1].cls = "TinyMCE"
           /\ saved.state # "none"
              => /\ saved.state = "sent"
                 /\ \A k \in DOMAIN lines :
                        lines[k][1] = << >> /\ lines[k][2] = << >>
                 /\ \/ ConcatContents(lines, 1, Len(lines))
                           = ConcatContents(arr, 1, Len(arr))
                    \/ ConcatContents(lines, 1, Len(lines))
                           = ConcatContents(arr, 1, Len(arr)) \o <<"\n">>

\* ------------------------------------------------------------------------
\* Properties of the editor mode (SpecEdit)
\* ------------------------------------------------------------------------

\* C19: the page is opened in one of the four modes: the mode the mode
\* parameter of the URL names, and edit when there is no parameter or it
\* names none of the four.
C19_ModeResolution ==
    page = "open"
    => /\ editorMode \in {EditorMode.view, EditorMode.toc, EditorMode.edit,
                          EditorMode.raw}
       /\ editorMode =
              IF mode_param.present
                 /\ mode_param.value \in {"view", "toc", "edit", "raw"}
              THEN EditorMode[mode_param.value]
              ELSE EditorMode.edit

====
